---- MODULE Spec2Model ----
\* Model of the transcript service (src/main.py): the video-id resolver, the
\* caption-track selector, the timed-text XML decoder and the request handler
\* transcript_core with its two outbound HTTP calls.
\*
\* Python strings are TLA+ strings; Len, SubSeq and \o act on them character
\* by character.  An optional value (Python None) is a sequence of length 0
\* or 1: None is <<>> and a present value v is <<v>>.
EXTENDS Integers, Sequences, FiniteSets, TLC

VARIABLES
    pc,         \* where the request is: the next statement group of transcript_core
    url, lang,  \* the request's two fields
    vid,        \* transcript_core's vid
    tracks,     \* transcript_core's tracks
    chosen,     \* transcript_core's chosen
    xml,        \* transcript_core's xml
    parsed,     \* transcript_core's parsed
    calls,      \* the outbound HTTP requests made so far, in order
    responses,  \* the responses transcript_core has returned, in order
    raised      \* the exception that left transcript_core uncaught, if any

vars == <<pc, url, lang, vid, tracks, chosen, xml, parsed, calls, responses, raised>>

------------------------------------------------------------------------------
\* Bounds of the model.

\* Longest caption-track list the watch page hands back.
MaxTracks == 2

\* Longest track list pick_track is applied to on its own.
MaxPickLen == 3

\* Most <text> elements in a timed-text document.
MaxElems == 2

------------------------------------------------------------------------------
\* Strings.

None == <<>>

Some(v) == <<v>>

Char(s, i) == SubSeq(s, i, i)

CharsOf(s) == {Char(s, i) : i \in 1..Len(s)}

Min(S) == CHOOSE m \in S : \A n \in S : m <= n

\* F(v) with v evaluated once, as an assignment to a local variable does.
Let(v, F(_)) == CHOOSE r \in {F(x) : x \in {v}} : TRUE

StartsWithAt(s, i, p) ==
    /\ i >= 1
    /\ i + Len(p) - 1 <= Len(s)
    /\ SubSeq(s, i, i + Len(p) - 1) = p

\* Python: p in s
Contains(s, p) == \E i \in 1..(Len(s) + 1) : StartsWithAt(s, i, p)

\* First index >= from at which p occurs in s, 0 when there is none
\* (str.find, shifted to 1-based indices).
Find(s, p, from) ==
    LET hits == {i \in from..(Len(s) + 1) : StartsWithAt(s, i, p)}
    IN  IF hits = {} THEN 0 ELSE Min(hits)

UpperChars == "ABCDEFGHIJKLMNOPQRSTUVWXYZ"

LowerChars == "abcdefghijklmnopqrstuvwxyz"

Digits == "0123456789"

\* Python \s and str.strip() whitespace (ASCII).
Whitespace == {" ", "\t", "\n", "\r", "\f"}

LowerChar(c) ==
    IF \E i \in 1..Len(UpperChars) : Char(UpperChars, i) = c
    THEN Char(LowerChars, CHOOSE i \in 1..Len(UpperChars) : Char(UpperChars, i) = c)
    ELSE c

RECURSIVE Lower(_)
\* str.lower()
Lower(s) == IF s = "" THEN "" ELSE LowerChar(Char(s, 1)) \o Lower(Tail(s))

\* str.strip()
Strip(s) ==
    LET keep == {i \in 1..Len(s) : Char(s, i) \notin Whitespace}
    IN  IF keep = {} THEN ""
        ELSE SubSeq(s, Min(keep), CHOOSE m \in keep : \A n \in keep : n <= m)

------------------------------------------------------------------------------
\* extract_youtube_id

\* The character class [A-Za-z0-9_-].
IdCharSet == CharsOf(UpperChars) \cup CharsOf(LowerChars) \cup CharsOf(Digits) \cup {"_", "-"}

\* The quantifier {6,} of the four patterns.
MinIdLen == 6

\* Length of the longest run of id characters of s that starts at index i.
IdRunLen(s, i) ==
    Min({j \in i..(Len(s) + 1) : j > Len(s) \/ Char(s, j) \notin IdCharSet}) - i

\* re.search(P + "([A-Za-z0-9_-]{6,})", s).group(1), where P matches exactly
\* the strings of `prefixes`: the leftmost position at which a prefix is
\* followed by at least MinIdLen id characters, the capture being the whole run.
ReSearchId(s, prefixes) ==
    LET hits == {i \in 1..Len(s) : \E p \in prefixes :
                    StartsWithAt(s, i, p) /\ IdRunLen(s, i + Len(p)) >= MinIdLen}
    IN  IF hits = {} THEN None
        ELSE LET i == Min(hits)
                 p == CHOOSE q \in prefixes :
                        StartsWithAt(s, i, q) /\ IdRunLen(s, i + Len(q)) >= MinIdLen
             IN  Some(SubSeq(s, i + Len(p), i + Len(p) + IdRunLen(s, i + Len(p)) - 1))

extract_youtube_id(u) ==
    LET s  == Strip(u)
        m1 == ReSearchId(s, {"youtu.be/"})
        m2 == ReSearchId(s, {"?v=", "&v="})
        m3 == ReSearchId(s, {"youtube.com/shorts/"})
        m4 == ReSearchId(s, {"youtube.com/embed/"})
    IN  IF m1 # None THEN m1
        ELSE IF m2 # None THEN m2
        ELSE IF m3 # None THEN m3
        ELSE IF m4 # None THEN m4
        ELSE None

------------------------------------------------------------------------------
\* pick_track
\*
\* A caption track is a record [languageCode, kind, baseUrl]; a key the JSON
\* leaves out (dict.get giving None) is the empty string, which is what the
\* code's `or ""` and truth tests turn it into.

\* A loop `for t in ts: if <test>: return t`, hits being the indices of the
\* tracks that pass the test: the first of them, None when the loop falls
\* through.
FirstOf(ts, hits) == IF hits = {} THEN None ELSE Some(ts[Min(hits)])

\* pick_track without its first loop: the first track in the language wins,
\* manual or not.
pick_track_any_in_lang(ts, lg) ==
    LET want == Lower(IF lg = "" THEN "en" ELSE lg)
        r2 == FirstOf(ts, {i \in 1..Len(ts) : Lower(ts[i].languageCode) = want})
        r3 == FirstOf(ts, {i \in 1..Len(ts) : ts[i].kind # "asr"})
    IN  IF r2 # None THEN r2
        ELSE IF r3 # None THEN r3
        ELSE IF Len(ts) > 0 THEN Some(ts[1]) ELSE None

pick_track(ts, lg) ==
    LET want == Lower(IF lg = "" THEN "en" ELSE lg)
        r1 == FirstOf(ts, {i \in 1..Len(ts) :
                              Lower(ts[i].languageCode) = want /\ ts[i].kind # "asr"})
        r2 == FirstOf(ts, {i \in 1..Len(ts) : Lower(ts[i].languageCode) = want})
        r3 == FirstOf(ts, {i \in 1..Len(ts) : ts[i].kind # "asr"})
    IN  IF r1 # None THEN r1
        ELSE IF r2 # None THEN r2
        ELSE IF r3 # None THEN r3
        ELSE IF Len(ts) > 0 THEN Some(ts[1]) ELSE None

------------------------------------------------------------------------------
\* decode_xml_entities and the text normalisation of parse_timedtext_xml

RECURSIVE Replace(_, _, _)
\* str.replace(old, new): every non-overlapping occurrence, left to right.
Replace(s, old, new) ==
    Let(Find(s, old, 1), LAMBDA i :
        IF i = 0 THEN s
        ELSE Let(SubSeq(s, i + Len(old), Len(s)), LAMBDA rest :
                 SubSeq(s, 1, i - 1) \o new \o Replace(rest, old, new)))

decode_xml_entities(s) ==
    Let(Replace(s, "&amp;", "&"),   LAMBDA s1 :
    Let(Replace(s1, "&quot;", "\""), LAMBDA s2 :
    Let(Replace(s2, "&#39;", "'"),  LAMBDA s3 :
    Let(Replace(s3, "&apos;", "'"), LAMBDA s4 :
    Let(Replace(s4, "&lt;", "<"),   LAMBDA s5 :
        Replace(s5, "&gt;", ">"))))))

RECURSIVE StripTags(_)
\* re.sub(r"<[^>]*>", "", s): each match runs from a "<" to the first ">"
\* after it.
StripTags(s) ==
    Let({i \in 1..Len(s) : Char(s, i) = "<" /\ Find(s, ">", i + 1) # 0}, LAMBDA opens :
        IF opens = {} THEN s
        ELSE Let(SubSeq(s, Find(s, ">", Min(opens) + 1) + 1, Len(s)), LAMBDA rest :
                 SubSeq(s, 1, Min(opens) - 1) \o StripTags(rest)))

RECURSIVE CollapseWs(_)
\* re.sub(r"\s+", " ", s): each maximal run of whitespace becomes one space.
CollapseWs(s) ==
    Let({i \in 1..Len(s) : Char(s, i) \in Whitespace}, LAMBDA ws :
        IF ws = {} THEN s
        ELSE Let(Min({k \in Min(ws)..(Len(s) + 1) : k > Len(s) \/ Char(s, k) \notin Whitespace}),
                 LAMBDA j :
                 Let(SubSeq(s, j, Len(s)), LAMBDA rest :
                     SubSeq(s, 1, Min(ws) - 1) \o " " \o CollapseWs(rest))))

\* Lines 66-68: unescape, strip tags, collapse whitespace, trim.
NormalizeText(body) ==
    Let(decode_xml_entities(body), LAMBDA t1 :
    Let(StripTags(t1),             LAMBDA t2 :
    Let(CollapseWs(t2),            LAMBDA t3 : Strip(t3))))

------------------------------------------------------------------------------
\* float(): a float is modelled by its value in thousandths (1.5 is 1500),
\* digits past the third decimal dropped.  The literals decoded are the
\* decimal ones, [ws][+-]digits[.digits][ws]; the other literals float()
\* accepts (exponents, inf, nan, digit-group underscores) are not among the
\* attribute values of the model's documents.

DigitVal(c) == (CHOOSE i \in 1..Len(Digits) : Char(Digits, i) = c) - 1

AllDigits(s) == \A i \in 1..Len(s) : Char(s, i) \in CharsOf(Digits)

RECURSIVE DecVal(_)
\* Value of a digit string.
DecVal(s) ==
    IF s = "" THEN 0
    ELSE Let(SubSeq(s, 1, Len(s) - 1), LAMBDA front :
             DecVal(front) * 10 + DigitVal(Char(s, Len(s))))

\* The fraction digits as thousandths, digits past the third dropped.
FracVal(s) == DecVal(SubSeq(s \o "000", 1, 3))

\* float(s): [ok |-> FALSE] stands for ValueError.
ParseFloat(s) ==
    Let(Strip(s), LAMBDA t :
    Let(IF StartsWithAt(t, 1, "-") \/ StartsWithAt(t, 1, "+") THEN Tail(t) ELSE t, LAMBDA u :
    Let(Find(u, ".", 1), LAMBDA dot :
    Let(IF dot \in 1..Len(u) THEN SubSeq(u, 1, dot - 1) ELSE u, LAMBDA ip :
    Let(IF dot \in 1..Len(u) THEN SubSeq(u, dot + 1, Len(u)) ELSE "", LAMBDA fp :
        IF AllDigits(ip) /\ AllDigits(fp) /\ Len(ip) + Len(fp) > 0
        THEN Let(DecVal(ip) * 1000 + FracVal(fp), LAMBDA mag :
                 [ok |-> TRUE, val |-> IF StartsWithAt(t, 1, "-") THEN 0 - mag ELSE mag])
        ELSE [ok |-> FALSE, val |-> 0])))))

------------------------------------------------------------------------------
\* parse_timedtext_xml

\* \w of the regular expressions.
WordChars == IdCharSet \ {"-"}

\* Start index of the leftmost match of <text\b([^>]*)>([\s\S]*?)</text> at or
\* after `from`, 0 when there is none.
NextTextMatch(s, from) ==
    LET hits == {i \in from..Len(s) :
                    /\ StartsWithAt(s, i, "<text")
                    /\ (i + 5 > Len(s) \/ Char(s, i + 5) \notin WordChars)
                    /\ Find(s, ">", i + 5) # 0
                    /\ Find(s, "</text>", Find(s, ">", i + 5) + 1) # 0}
    IN  IF hits = {} THEN 0 ELSE Min(hits)

RECURSIVE TextMatches(_, _)
\* re.finditer: the matches from `from` on, as [attrs, body], in document order.
TextMatches(s, from) ==
    Let(NextTextMatch(s, from), LAMBDA i :
        IF i = 0 THEN <<>>
        ELSE Let(Find(s, ">", i + 5), LAMBDA g :
             Let(Find(s, "</text>", g + 1), LAMBDA e :
             Let(TextMatches(s, e + 7), LAMBDA later :
                 <<[attrs |-> SubSeq(s, i + 5, g - 1), body |-> SubSeq(s, g + 1, e - 1)]>>
                 \o later))))

\* re.search(name + '="([^"]+)"', attrs): None, or the captured value.
AttrSearch(attrs, name) ==
    Let(name \o "=\"", LAMBDA key :
    Let({i \in 1..Len(attrs) :
            /\ StartsWithAt(attrs, i, key)
            /\ Find(attrs, "\"", i + Len(key)) > i + Len(key)}, LAMBDA hits :
        IF hits = {} THEN None
        ELSE Let(Min(hits), LAMBDA i :
                 Some(SubSeq(attrs, i + Len(key), Find(attrs, "\"", i + Len(key)) - 1)))))

\* float(m.group(1)) if m else 0.0
AttrFloat(attrs, name) ==
    Let(AttrSearch(attrs, name), LAMBDA m :
        IF m = None THEN [ok |-> TRUE, val |-> 0] ELSE ParseFloat(m[1]))

\* The message of the ValueError float() raises.
FloatError(v) == "could not convert string to float: '" \o v \o "'"

RECURSIVE JoinLines(_)
\* "\n".join(...)
JoinLines(ss) ==
    IF ss = <<>> THEN ""
    ELSE IF Len(ss) = 1 THEN ss[1]
    ELSE Let(Tail(ss), LAMBDA rest : ss[1] \o "\n" \o JoinLines(rest))

\* ParseStep without the `if not txt: continue` of lines 69-70.
ParseStepKeepEmpty(m, segs) ==
    Let(AttrFloat(m.attrs, "start"), LAMBDA start :
        IF ~start.ok
        THEN [raised |-> Some(FloatError(AttrSearch(m.attrs, "start")[1])), segments |-> segs]
        ELSE Let(AttrFloat(m.attrs, "dur"), LAMBDA dur :
            IF ~dur.ok
            THEN [raised |-> Some(FloatError(AttrSearch(m.attrs, "dur")[1])), segments |-> segs]
            ELSE Let(NormalizeText(m.body), LAMBDA txt :
                [raised   |-> None,
                 segments |-> Append(segs, [start |-> start.val, dur |-> dur.val, text |-> txt])])))

\* Lines 57-72 for one match m, segs being the list built so far:
\* [raised, segments], raised holding the message of the exception raised.
ParseStep(m, segs) ==
    Let(AttrFloat(m.attrs, "start"), LAMBDA start :
        IF ~start.ok
        THEN [raised |-> Some(FloatError(AttrSearch(m.attrs, "start")[1])), segments |-> segs]
        ELSE Let(AttrFloat(m.attrs, "dur"), LAMBDA dur :
            IF ~dur.ok
            THEN [raised |-> Some(FloatError(AttrSearch(m.attrs, "dur")[1])), segments |-> segs]
            ELSE Let(NormalizeText(m.body), LAMBDA txt :
                [raised   |-> None,
                 segments |-> IF txt = "" THEN segs
                              ELSE Append(segs, [start |-> start.val, dur |-> dur.val, text |-> txt])])))

RECURSIVE ParseLoop(_, _)
\* The loop of line 56 over the matches ms; an exception ends it.
ParseLoop(ms, segs) ==
    IF ms = <<>> THEN [raised |-> None, segments |-> segs]
    ELSE Let(ParseStep(ms[1], segs), LAMBDA r :
             IF r.raised # None THEN r
             ELSE Let(Tail(ms), LAMBDA rest : ParseLoop(rest, r.segments)))

\* [raised, segments, text]: raised is the message of the exception that left
\* the function; segments and text are the returned dict otherwise.
parse_timedtext_xml(x) ==
    Let(TextMatches(x, 1), LAMBDA ms :
    Let(ParseLoop(ms, <<>>), LAMBDA r :
        [raised   |-> r.raised,
         segments |-> IF r.raised # None THEN <<>> ELSE r.segments,
         text     |-> IF r.raised # None THEN ""
                      ELSE JoinLines([i \in 1..Len(r.segments) |-> r.segments[i].text])]))

------------------------------------------------------------------------------
\* The two outbound HTTP calls.

RECURSIVE IntStr(_)
\* str() of a non-negative int, as the f-string of line 133 formats it.
IntStr(n) == IF n < 10 THEN Char(Digits, n + 1) ELSE IntStr(n \div 10) \o Char(Digits, (n % 10) + 1)

\* Line 77.
WatchUrl(id) == "https://www.youtube.com/watch?v=" \o id \o "&hl=en&gl=US"

\* Lines 86-101 on the reply to the watch-page request: hasMarker says whether
\* the captionTracks pattern of line 92 matches the page, jsonOk whether
\* json.loads accepts the captured array, tracks is the decoded array.
WatchPageTracks(reply) ==
    IF reply.status # 200 THEN <<>>
    ELSE IF ~reply.hasMarker THEN <<>>
    ELSE IF ~reply.jsonOk THEN <<>>
    ELSE reply.tracks

\* Lines 123-125: the URL fetch_timedtext_xml requests.
TimedtextUrl(base_url) ==
    IF Contains(base_url, "fmt=") THEN base_url
    ELSE base_url \o (IF Contains(base_url, "?") THEN "&" ELSE "?") \o "fmt=srv3"

\* Line 133.
TimedtextError(status) == "Timedtext fetch failed (" \o IntStr(status) \o ")"

------------------------------------------------------------------------------
\* transcript_core's responses.

\* Line 216.
InvalidUrlResponse == [ok |-> FALSE, status |-> 400, error |-> "Invalid YouTube URL"]

\* A failure response that leaves the video id out.
FailureWithoutId(id, msg) == [ok |-> FALSE, status |-> 400, error |-> msg]

\* JSONResponse({"ok": False, "videoId": vid, "error": msg}, status_code=400)
Failure(id, msg) == [ok |-> FALSE, status |-> 400, videoId |-> id, error |-> msg]

\* Lines 241-252.
Success(id, ch, p, ts) ==
    [ok       |-> TRUE,
     status   |-> 200,
     videoId  |-> id,
     lang     |-> ch.languageCode,
     kind     |-> ch.kind,
     text     |-> p.text,
     segments |-> p.segments,
     tracks   |-> [i \in 1..Len(ts) |-> [lang |-> ts[i].languageCode, kind |-> ts[i].kind]]]

Respond(r) ==
    /\ responses' = Append(responses, r)
    /\ pc' = "done"

------------------------------------------------------------------------------
\* The inputs of the model.

\* A valid 11-character video id, and a second one.
Id1 == "dQw4w9WgXcQ"

Id2 == "a-b_c0d1e2f"

\* The exceptions requests.get raises (timeout=20 expired, connection failed).
NetErrors == {"Read timed out. (read timeout=20)", "Connection aborted."}

Track(lc, k, b) == [languageCode |-> lc, kind |-> k, baseUrl |-> b]

RECURSIVE SeqsUpTo(_, _)
\* The sequences over S of length at most n.
SeqsUpTo(S, n) ==
    IF n = 0 THEN {<<>>}
    ELSE LET shorter == SeqsUpTo(S, n - 1)
         IN  shorter \cup {Append(q, e) : q \in {r \in shorter : Len(r) = n - 1}, e \in S}

\* Requests.
CoreUrls ==
    {"https://youtu.be/" \o Id1,
     "https://www.youtube.com/watch?v=" \o Id2 \o "&t=5",
     Id1,
     "not a url"}

CoreLangs == {"en", "fr"}

\* Caption tracks of a watch page.
CoreTracks ==
    {Track("en", "asr", "https://yt/tt?v=1"),
     Track("en", "", "https://yt/tt?v=2&fmt=vtt"),
     Track("fr", "", ""),
     Track("de", "asr", "https://yt/tt")}

\* Replies to the watch-page request.
WatchReplies ==
    {[status |-> 404, hasMarker |-> FALSE, jsonOk |-> FALSE, tracks |-> <<>>],
     [status |-> 200, hasMarker |-> FALSE, jsonOk |-> FALSE, tracks |-> <<>>],
     [status |-> 200, hasMarker |-> TRUE, jsonOk |-> FALSE, tracks |-> <<>>]}
    \cup {[status |-> 200, hasMarker |-> TRUE, jsonOk |-> TRUE, tracks |-> ts] :
            ts \in SeqsUpTo(CoreTracks, MaxTracks)}

\* Bodies of replies to the timed-text request.
CoreDocs ==
    {"",
     "<transcript></transcript>",
     "<transcript><text start=\"0\" dur=\"1.5\">Hello</text><text start=\"1.5\" dur=\"2\">A &amp; B</text></transcript>",
     "<transcript><text start=\"0\" dur=\"1\"> </text><text start=\"1\">&lt;i&gt;</text></transcript>",
     "<transcript><text start=\"0\" dur=\"1\">ok</text><text start=\"x\" dur=\"1\">bad</text></transcript>"}

TimedtextReplies == {[status |-> st, text |-> d] : st \in {200, 404}, d \in CoreDocs}

------------------------------------------------------------------------------
\* transcript_core, one action per statement group.

\* Lines 214-216.
Resolve ==
    /\ pc = "start"
    /\ vid' = extract_youtube_id(url)
    /\ IF vid' = None
         THEN Respond(InvalidUrlResponse)
         ELSE pc' = "fetch_tracks" /\ UNCHANGED responses
    /\ UNCHANGED <<url, lang, tracks, chosen, xml, parsed, calls, raised>>

\* Lines 218-223, with fetch_watch_page_captiontracks (76-101).  requests.get
\* is called outside any try: an exception it raises leaves transcript_core.
FetchTracks ==
    /\ pc = "fetch_tracks"
    /\ calls' = Append(calls, [fn |-> "watch_page", url |-> WatchUrl(vid[1])])
    /\ \/ \E e \in NetErrors :
            /\ raised' = Some(e)
            /\ pc' = "raised"
            /\ UNCHANGED <<tracks, responses>>
       \/ \E reply \in WatchReplies :
            /\ tracks' = WatchPageTracks(reply)
            /\ IF tracks' = <<>>
                 THEN Respond(Failure(vid[1], "No caption tracks exposed on watch page."))
                 ELSE pc' = "pick" /\ UNCHANGED responses
            /\ UNCHANGED raised
    /\ UNCHANGED <<url, lang, vid, chosen, xml, parsed>>

\* Lines 225-230.
PickTrack ==
    /\ pc = "pick"
    /\ chosen' = pick_track(tracks, lang)
    /\ IF chosen' = None \/ chosen'[1].baseUrl = ""
         THEN Respond(Failure(vid[1], "Caption tracks found but no usable baseUrl."))
         ELSE pc' = "fetch_xml" /\ UNCHANGED responses
    /\ UNCHANGED <<url, lang, vid, tracks, xml, parsed, calls, raised>>

\* Line 233 with fetch_timedtext_xml (121-134), inside the try of line 232: an
\* exception of requests.get and the RuntimeError of line 133 reach the
\* handler of lines 253-257.
FetchTimedtext ==
    /\ pc = "fetch_xml"
    /\ calls' = Append(calls, [fn |-> "timedtext", url |-> TimedtextUrl(chosen[1].baseUrl)])
    /\ \/ \E e \in NetErrors :
            /\ Respond(Failure(vid[1], e))
            /\ UNCHANGED xml
       \/ \E reply \in TimedtextReplies :
            IF reply.status # 200
              THEN Respond(Failure(vid[1], TimedtextError(reply.status))) /\ UNCHANGED xml
              ELSE xml' = reply.text /\ pc' = "parse" /\ UNCHANGED responses
    /\ UNCHANGED <<url, lang, vid, tracks, chosen, parsed, raised>>

\* Parse without the emptiness test of lines 235-239.
ParseWithoutEmptyCheck ==
    /\ pc = "parse"
    /\ \E p \in {parse_timedtext_xml(xml)} :
           IF p.raised # None
             THEN Respond(Failure(vid[1], p.raised[1])) /\ UNCHANGED parsed
           ELSE /\ parsed' = Some(p)
                /\ Respond(Success(vid[1], chosen[1], p, tracks))
    /\ UNCHANGED <<url, lang, vid, tracks, chosen, xml, calls, raised>>

\* Lines 234-257.
Parse ==
    /\ pc = "parse"
    /\ \E p \in {parse_timedtext_xml(xml)} :
           IF p.raised # None
             THEN Respond(Failure(vid[1], p.raised[1])) /\ UNCHANGED parsed
           ELSE /\ parsed' = Some(p)
                /\ IF p.segments = <<>>
                     THEN Respond(Failure(vid[1], "Transcript returned empty."))
                     ELSE Respond(Success(vid[1], chosen[1], p, tracks))
    /\ UNCHANGED <<url, lang, vid, tracks, chosen, xml, calls, raised>>

\* A request as transcript_get and transcript_post hand it to transcript_core.
Init ==
    /\ pc = "start"
    /\ url \in CoreUrls
    /\ lang \in CoreLangs
    /\ vid = None
    /\ tracks = <<>>
    /\ chosen = None
    /\ xml = ""
    /\ parsed = None
    /\ calls = <<>>
    /\ responses = <<>>
    /\ raised = None

Next == Resolve \/ FetchTracks \/ PickTrack \/ FetchTimedtext \/ Parse

Spec == Init /\ [][Next]_vars

------------------------------------------------------------------------------
\* extract_youtube_id on its own: a request for each reference of ExtractUrls,
\* taken through the first statement group of transcript_core.

UrlPrefixes == {"", "https://", " https://www."}

UrlShapes ==
    {"", "youtu.be/", "youtube.com/watch?v=", "youtube.com/watch?list=PL1&v=",
     "youtube.com/shorts/", "youtube.com/embed/"}

\* Two valid ids, one of 6 characters and one of 5.
UrlIds == {Id1, Id2, "abc123", "abc12"}

UrlSuffixes == {"", "?t=5", "&list=PL1 ", "?v=" \o Id2}

ExtractUrls ==
    {pre \o shape \o id \o suf :
        pre \in UrlPrefixes, shape \in UrlShapes, id \in UrlIds, suf \in UrlSuffixes}
    \cup {"", "not a url", "https://example.com/video", "https://www.youtube.com/watch?x=1"}

InitExtract ==
    /\ pc = "start"
    /\ url \in ExtractUrls
    /\ lang = "en"
    /\ vid = None
    /\ tracks = <<>>
    /\ chosen = None
    /\ xml = ""
    /\ parsed = None
    /\ calls = <<>>
    /\ responses = <<>>
    /\ raised = None

SpecExtract == InitExtract /\ [][Resolve]_vars

------------------------------------------------------------------------------
\* pick_track on its own: one call for each track list and language.

PickTracks ==
    {Track(lc, k, b) : lc \in {"en", "EN", "fr"}, k \in {"asr", ""}, b \in {"u1", "u2"}}

PickLangs == {"en", "En", "fr", "de", ""}

InitPick ==
    /\ pc = "call_pick"
    /\ tracks \in SeqsUpTo(PickTracks, MaxPickLen)
    /\ lang \in PickLangs
    /\ url = ""
    /\ vid = None
    /\ chosen = None
    /\ xml = ""
    /\ parsed = None
    /\ calls = <<>>
    /\ responses = <<>>
    /\ raised = None

\* chosen = pick_track(tracks, lang)
CallPick ==
    /\ pc = "call_pick"
    /\ chosen' = pick_track(tracks, lang)
    /\ pc' = "returned"
    /\ UNCHANGED <<url, lang, vid, tracks, xml, parsed, calls, responses, raised>>

SpecPick == InitPick /\ [][CallPick]_vars

------------------------------------------------------------------------------
\* parse_timedtext_xml on its own: a request that has fetched a timed-text
\* document of ParseDocs and is about to decode it (line 234).

ParseAttrs ==
    {"", " start=\"1.5\" dur=\"2.0\"", " dur=\"3\" start=\"\"", " start=\"x\" dur=\"1\""}

ParseBodies == {"", "Hello", "A &amp; B", " \n ", "&lt;b&gt;", "a  <b>b</b>\n"}

ParseElems == {"<text" \o a \o ">" \o b \o "</text>" : a \in ParseAttrs, b \in ParseBodies}

RECURSIVE Concat(_)
Concat(ss) == IF ss = <<>> THEN "" ELSE ss[1] \o Concat(Tail(ss))

ParseDocs == {"<transcript>" \o Concat(es) \o "</transcript>" : es \in SeqsUpTo(ParseElems, MaxElems)}

ParseTrack == Track("en", "asr", "https://yt/tt?v=1")

InitParse ==
    /\ pc = "parse"
    /\ xml \in ParseDocs
    /\ url = "https://youtu.be/" \o Id1
    /\ lang = "en"
    /\ vid = Some(Id1)
    /\ tracks = <<ParseTrack>>
    /\ chosen = Some(ParseTrack)
    /\ parsed = None
    /\ calls = <<[fn |-> "watch_page", url |-> WatchUrl(Id1)],
                 [fn |-> "timedtext", url |-> TimedtextUrl(ParseTrack.baseUrl)]>>
    /\ responses = <<>>
    /\ raised = None

SpecParse == InitParse /\ [][Parse]_vars

------------------------------------------------------------------------------
\* The claims.

Last(q) == q[Len(q)]

Ended == pc \in {"done", "raised"}

CallsOf(f) == {i \in 1..Len(calls) : calls[i].fn = f}

\* C1: resolution tries the strategies in the order library-mediated lookup,
\* watch-page scrape, direct endpoint probe, moving on only after a
\* non-success: the watch page is requested only after a library-mediated
\* lookup has been made, and a request whose scrape failed has gone on to the
\* direct endpoint probe before it answers.
C1_StrategyOrder ==
    /\ \A i \in CallsOf("watch_page") : \E j \in 1..(i - 1) : calls[j].fn = "library"
    /\ (pc = "done" /\ vid # None /\ ~Last(responses).ok)
          => \E i \in 1..Len(calls) : calls[i].fn = "direct_probe"

\* C2: when every strategy has failed, the one terminal outcome is the failure
\* with code NotImplemented of the audio-fallback tier.
C2_AudioFallbackFailure ==
    (pc = "done" /\ vid # None /\ ~Last(responses).ok)
        => /\ Len(responses) = 1
           /\ "code" \in DOMAIN Last(responses)
           /\ Last(responses).code = "NotImplemented"

\* The selector's policy as the specification words it.  The desired code is
\* the request's language, "en" when the request gives none, compared
\* case-insensitively.
DesiredCode(lg) == Lower(IF lg = "" THEN "en" ELSE lg)

IsManual(t) == t.kind # "asr"

PolicyClasses(ts, lg) ==
    << {i \in 1..Len(ts) : IsManual(ts[i]) /\ Lower(ts[i].languageCode) = DesiredCode(lg)},
       {i \in 1..Len(ts) : Lower(ts[i].languageCode) = DesiredCode(lg)},
       {i \in 1..Len(ts) : IsManual(ts[i])},
       1..Len(ts) >>

PolicyChoice(ts, lg) ==
    LET cs    == PolicyClasses(ts, lg)
        rules == {k \in 1..4 : cs[k] # {}}
    IN  IF rules = {} THEN None ELSE Some(ts[Min(cs[Min(rules)])])

\* C3: pick_track returns the first track, in list order, of the first
\* non-empty class among manual-in-language, in-language, manual, any; it
\* returns None exactly when the list is empty.
C3_PickPolicy ==
    pc = "returned"
        => /\ chosen = PolicyChoice(tracks, lang)
           /\ (chosen = None <=> tracks = <<>>)

\* C3's case: an auto-generated track in the desired language precedes a
\* manual one, and the manual one is chosen.
C3_Witness ==
    /\ pc = "returned"
    /\ lang = "en"
    /\ tracks = <<Track("en", "asr", "u1"), Track("EN", "", "u2"), Track("fr", "", "u1")>>
    /\ chosen = Some(tracks[2])

ValidId(x) == Len(x) = 11 /\ \A i \in 1..Len(x) : Char(x, i) \in IdCharSet

EndsAt(s, i, m) == i >= Len(m) /\ SubSeq(s, i - Len(m) + 1, i) = m

\* The reference s carries id in one of the supported shapes: the id stands
\* alone at the start (a bare token) or right after youtu.be/, watch?v=,
\* /shorts/ or /embed/, and the text ends after it or goes on with ? or &.
CarriesId(s, id) ==
    \E i \in 1..Len(s) :
        /\ SubSeq(s, i, i + 10) = id
        /\ ValidId(id)
        /\ (i + 11 > Len(s) \/ Char(s, i + 11) \in {"?", "&"})
        /\ \/ i = 1
           \/ \E m \in {"youtu.be/", "/watch?v=", "/shorts/", "/embed/"} : EndsAt(s, i - 1, m)

\* The reference has none of the shapes: no shape marker in it, and it is no
\* token of id characters.
NoShape(s) ==
    /\ \A m \in {"youtu.be/", "v=", "/shorts/", "/embed/"} : ~Contains(s, m)
    /\ (s = "" \/ \E i \in 1..Len(s) : Char(s, i) \notin IdCharSet)

\* C4: a reference of a supported shape (bare token included) that carries a
\* valid 11-character id resolves to exactly that id; a reference of no shape
\* resolves to nothing and is answered with the invalid-reference failure,
\* nothing else being done.
C4_ResolvesEveryShape ==
    pc # "start"
        => /\ \A i \in 1..Len(Strip(url)) :
                CarriesId(Strip(url), SubSeq(Strip(url), i, i + 10))
                    => vid = Some(SubSeq(Strip(url), i, i + 10))
           /\ NoShape(Strip(url))
                => vid = None /\ responses = <<InvalidUrlResponse>> /\ calls = <<>>

\* C5: no failure of an outbound call leaves transcript_core as an uncaught
\* exception.
C5_NoEscapingException == raised = None

\* C6: every failure produced once the id is resolved carries that id and a
\* non-empty message; the invalid-reference failure alone carries no id.
C6_FailuresCarryId ==
    \A i \in 1..Len(responses) :
        ~responses[i].ok
            => /\ responses[i].error # ""
               /\ IF vid = None
                    THEN "videoId" \notin DOMAIN responses[i]
                    ELSE "videoId" \in DOMAIN responses[i] /\ responses[i].videoId = vid[1]

\* C6's case: the timed-text fetch failed after the id was resolved.
C6_Witness ==
    /\ pc = "done"
    /\ vid # None
    /\ Len(calls) = 2
    /\ ~Last(responses).ok
    /\ Last(responses).error = TimedtextError(404)

\* C7: a success response never has an empty segment list, and a decoding that
\* returns zero segments is answered with the empty-transcript failure.
C7_NoEmptySuccess ==
    /\ \A i \in 1..Len(responses) : responses[i].ok => responses[i].segments # <<>>
    /\ (pc = "done" /\ parsed # None /\ parsed[1].segments = <<>>)
          => responses = <<Failure(vid[1], "Transcript returned empty.")>>

\* C7's case: the fetched document has text elements and decodes to nothing.
C7_Witness ==
    /\ pc = "done"
    /\ parsed # None
    /\ parsed[1].segments = <<>>
    /\ Len(TextMatches(xml, 1)) = 2
    /\ Len(responses) = 1

\* The value C8 gives an attribute: 0.0 when absent or unparsable.
ClaimedFloat(attrs, name) ==
    LET m == AttrSearch(attrs, name)
    IN  IF m = None THEN 0
        ELSE IF ParseFloat(m[1]).ok THEN ParseFloat(m[1]).val ELSE 0

KeepsText(seg) == seg.text # ""

\* The segments C8 and C9 describe: every text element, in document order,
\* those with empty normalised text left out.
ClaimedSegments(x) ==
    LET ms == TextMatches(x, 1)
    IN  SelectSeq([i \in 1..Len(ms) |->
                      [start |-> ClaimedFloat(ms[i].attrs, "start"),
                       dur   |-> ClaimedFloat(ms[i].attrs, "dur"),
                       text  |-> NormalizeText(ms[i].body)]],
                  KeepsText)

\* C8: decoding never fails over an attribute: an absent or unparsable start
\* or dur is 0.0, and every element of the document is still returned.
C8_BadAttributeIsZero ==
    pc = "done" => parsed # None /\ parsed[1].segments = ClaimedSegments(xml)

SegmentTexts(segs) == [i \in 1..Len(segs) |-> segs[i].text]

\* C9: the segments parse_timedtext_xml returns are the document's text
\* elements, in document order, without those whose normalised text is empty;
\* no returned segment has empty text.
C9_KeptInOrder ==
    parsed # None
        => /\ SegmentTexts(parsed[1].segments) = SegmentTexts(ClaimedSegments(xml))
           /\ \A i \in 1..Len(parsed[1].segments) : parsed[1].segments[i].text # ""

\* C9's case: of two text elements the first normalises to nothing and is
\* dropped, the second is kept.
C9_Witness ==
    /\ parsed # None
    /\ Len(TextMatches(xml, 1)) = 2
    /\ TextMatches(xml, 1)[1].body = "&lt;b&gt;"
    /\ SegmentTexts(parsed[1].segments) = <<"A & B">>

\* C10: no call without a resolved id; the watch page is fetched at most once;
\* the timed text is fetched at most once, after the watch page gave tracks
\* and the chosen one has a baseUrl; every request ends in exactly one
\* response.
C10_CallOrderAndOneOutcome ==
    /\ (vid = None => calls = <<>>)
    /\ Cardinality(CallsOf("watch_page")) <= 1
    /\ Cardinality(CallsOf("timedtext")) <= 1
    /\ \A i \in CallsOf("timedtext") :
          /\ i = 2 /\ calls[1].fn = "watch_page"
          /\ tracks # <<>>
          /\ chosen # None /\ chosen[1].baseUrl # ""
    /\ (Ended => Len(responses) = 1)
    /\ Len(responses) <= 1

====
